---- MODULE Spec2Model ----
(***************************************************************************)
(* World Bank labor force notebook (example_notebook.py): a linear batch   *)
(* pipeline that caches two CSV downloads, loads them into DuckDB, cleans  *)
(* and joins the indicator table, aggregates by region and renders a       *)
(* chart.  The script's cells are the actions; pc names the next cell.     *)
(*                                                                         *)
(* SQL values: a text cell is a sequence of characters, NULL is the empty  *)
(* sequence (read_csv_auto reads an empty field as NULL).  A region is     *)
(* NULL or a one-element sequence holding the region string.  OBS_VALUE    *)
(* and value are fixed-point numbers in tenths (615 stands for 61.5).      *)
(* Read-only preview cells (SELECT ... LIMIT 5, DESCRIBE, print) change no  *)
(* state and are not actions.                                              *)
(***************************************************************************)
EXTENDS Integers, Sequences, FiniteSets, TLC

VARIABLES
    pc,               \* the next cell of the script to execute
    status,           \* "running", "done", or "aborted" (an exception propagated)
    exc,              \* the exception that aborted the run, or "none"
    run,              \* number of the current execution of the script
    indicatorFile,    \* data/labor_force_data.csv: <<>> absent, <<lines>> present
    dictionaryFile,   \* data/data_dictionary.csv
    chartFile,        \* data/regional_labor_force_chart.html
    db,               \* data/worldbank.duckdb: table name -> rows
    conn,             \* "none", "open" or "closed"
    regional_df,      \* <<>> unbound, <<rows>> once computed
    summary_df,       \* <<>> unbound, <<rows>> once computed
    gets,             \* GET requests issued in this run, per resource
    remoteIndicator,  \* the lines the indicator URL serves
    remoteDictionary, \* the lines the dictionary URL serves
    start,            \* local state when the current run began
    prev              \* local state and results when the previous run ended

vars == <<pc, status, exc, run, indicatorFile, dictionaryFile, chartFile, db,
          conn, regional_df, summary_df, gets, remoteIndicator,
          remoteDictionary, start, prev>>

----------------------------------------------------------------------------
(* Bounds *)

MaxRuns == 2
MaxRemoteRows == 3
MaxRawRows == 5
MaxEnrichedRows == 7

----------------------------------------------------------------------------
(* SQL values and scalar functions *)

NULL == <<>>

DigitChars == <<"0", "1", "2", "3", "4", "5", "6", "7", "8", "9">>
LowerChars ==
    <<"a", "b", "c", "d", "e", "f", "g", "h", "i", "j", "k", "l", "m", "n", "o", "p"
      , "q", "r", "s", "t", "u", "v", "w", "x", "y", "z">>
UpperChars ==
    <<"A", "B", "C", "D", "E", "F", "G", "H", "I", "J", "K", "L", "M", "N", "O", "P"
      , "Q", "R", "S", "T", "U", "V", "W", "X", "Y", "Z">>

IsDigit(c) == \E i \in 1..Len(DigitChars) : DigitChars[i] = c
DigitVal(c) == (CHOOSE i \in 1..Len(DigitChars) : DigitChars[i] = c) - 1
IsDigits(s) == Len(s) > 0 /\ \A i \in 1..Len(s) : IsDigit(s[i])

RECURSIVE DigitsVal(_)
DigitsVal(s) ==
    IF s = <<>> THEN 0
    ELSE 10 * DigitsVal(SubSeq(s, 1, Len(s) - 1)) + DigitVal(s[Len(s)])

\* CAST(x AS INTEGER) on a text cell: the strict parse; ok = FALSE is DuckDB's
\* Conversion Error, which aborts the statement.
CastInteger(s) ==
    IF IsDigits(s) THEN [ok |-> TRUE, v |-> DigitsVal(s)]
    ELSE [ok |-> FALSE, v |-> 0]

\* CAST(x AS DOUBLE) on a text cell, in tenths; the modelled values carry at
\* most one fractional digit.
CastDouble(s) ==
    LET dots == {i \in 1..Len(s) : s[i] = "."}
    IN  IF dots = {} THEN
            IF IsDigits(s) THEN [ok |-> TRUE, v |-> 10 * DigitsVal(s)]
            ELSE [ok |-> FALSE, v |-> 0]
        ELSE
            LET p == CHOOSE i \in dots : TRUE
                ip == SubSeq(s, 1, p - 1)
                fp == SubSeq(s, p + 1, Len(s))
            IN  IF Cardinality(dots) = 1 /\ IsDigits(ip) /\ IsDigits(fp) /\ Len(fp) = 1
                THEN [ok |-> TRUE, v |-> 10 * DigitsVal(ip) + DigitVal(fp[1])]
                ELSE [ok |-> FALSE, v |-> 0]

UpperChar(c) ==
    IF \E i \in 1..Len(LowerChars) : LowerChars[i] = c
    THEN UpperChars[CHOOSE i \in 1..Len(LowerChars) : LowerChars[i] = c]
    ELSE c

\* UPPER(x); UPPER(NULL) is NULL.
Upper(s) == [i \in 1..Len(s) |-> UpperChar(s[i])]

\* SQL "=": never true when either side is NULL.
SqlEq(a, b) == a # NULL /\ b # NULL /\ a = b

Coalesce(a, b) == IF a # NULL THEN a ELSE b

RECURSIVE SumSeq(_)
SumSeq(s) == IF s = <<>> THEN 0 ELSE Head(s) + SumSeq(Tail(s))

Range(s) == {s[i] : i \in 1..Len(s)}

Map(s, F(_)) == [i \in 1..Len(s) |-> F(s[i])]

RECURSIVE Flatten(_)
Flatten(ss) == IF ss = <<>> THEN <<>> ELSE Head(ss) \o Flatten(Tail(ss))

\* The subsequence of s at the positions in I, in order.
RECURSIVE Pick(_, _)
Pick(s, I) ==
    IF s = <<>> THEN <<>>
    ELSE (IF Len(s) \in I THEN Pick(SubSeq(s, 1, Len(s) - 1), I) \o <<s[Len(s)]>>
          ELSE Pick(SubSeq(s, 1, Len(s) - 1), I))

----------------------------------------------------------------------------
(* Files and the two remote resources *)

Exists(f) == f # <<>>

Row(code, name, period, obs) ==
    [REF_AREA |-> code, REF_AREA_LABEL |-> name, TIME_PERIOD |-> period,
     OBS_VALUE |-> obs, INDICATOR_LABEL |-> "Labor force participation rate"]

Header ==
    [REF_AREA |-> <<"REF_AREA">>, REF_AREA_LABEL |-> "REF_AREA_LABEL",
     TIME_PERIOD |-> <<"TIME_PERIOD">>, OBS_VALUE |-> <<"OBS_VALUE">>,
     INDICATOR_LABEL |-> "INDICATOR_LABEL"]

Y2020 == <<"2", "0", "2", "0">>
Y2021 == <<"2", "0", "2", "1">>

\* Rows the indicator URL may serve.
ServedRows ==
    << Row(<<"I", "N", "D">>, "India", Y2020, <<"5", "1", ".", "5">>),
       Row(<<"P", "A", "K">>, "Pakistan", Y2020, <<"5", "2", ".", "2">>),
       Row(<<"b", "g", "d">>, "Bangladesh", Y2020, <<"5", "8">>),
       Row(<<"U", "S", "A">>, "United States", Y2021, NULL),
       Row(<<"C", "A", "N">>, "Canada", <<"n", "a">>, <<"6", "4">>) >>

\* Rows of indicator_raw for the transformation on its own.
RawRows ==
    << Row(<<"U", "S", "A">>, "United States", Y2020, <<"6", "1", ".", "5">>),
       Row(<<"C", "A", "N">>, "Canada", Y2020, <<"6", "5", ".", "2">>),
       Row(<<"U", "S", "A">>, "United States", Y2020, <<"6", "1", ".", "5">>),
       Row(<<"u", "s", "a">>, "United States", Y2020, <<"6", "0">>),
       Row(<<"C", "A", "N">>, "Canada", Y2020, <<"6", "4">>),
       Row(<<"U", "S", "A">>, "United States", Y2020, <<"6", "2">>),
       Row(<<"Z", "Z", "Z">>, "Zed", Y2020, <<"5", "0">>),
       Row(<<"Y", "Y", "Y">>, "Why", Y2020, <<"4", "0">>),
       Row(<<"X", "X", "X">>, "Ex", Y2020, <<"3", "0", ".", "5">>),
       Row(NULL, "Nowhere", Y2020, <<"4", "5">>),
       Row(<<"U", "S", "A">>, "United States", Y2021, NULL),
       Row(<<"C", "A", "N">>, "Canada", <<"n", "a">>, <<"6", "4">>) >>

Enriched(code, year, value, region) ==
    [country_code |-> code, country_name |-> "name", year |-> year,
     value |-> value, indicator_name |-> "Labor force participation rate",
     region |-> region]

\* Rows of indicator_with_region for the aggregation on its own.
EnrichedRows ==
    << Enriched(<<"I", "N", "D">>, 2021, 500, <<"South Asia">>),
       Enriched(<<"P", "A", "K">>, 2021, 510, <<"South Asia">>),
       Enriched(<<"B", "G", "D">>, 2021, 525, <<"South Asia">>),
       Enriched(<<"I", "N", "D">>, 2020, 490, <<"South Asia">>),
       Enriched(<<"P", "A", "K">>, 2020, 500, <<"South Asia">>),
       Enriched(<<"B", "G", "D">>, 2020, 520, <<"South Asia">>),
       Enriched(<<"Z", "Z", "Z">>, 2020, 400, <<"Other">>),
       Enriched(<<"Y", "Y", "Y">>, 2020, 410, <<"Other">>),
       Enriched(NULL, 2020, 420, <<"Other">>),
       Enriched(<<"A", "A", "A">>, 2020, 300, <<"Unknown">>),
       Enriched(<<"B", "B", "B">>, 2020, 310, <<"Unknown">>),
       Enriched(<<"C", "C", "C">>, 2020, 320, <<"Unknown">>),
       Enriched(<<"D", "D", "D">>, 2020, 200, <<"">>),
       Enriched(<<"E", "E", "E">>, 2020, 210, <<"">>),
       Enriched(<<"F", "F", "F">>, 2020, 220, <<"">>),
       Enriched(<<"G", "G", "G">>, 2020, 100, NULL),
       Enriched(<<"H", "H", "H">>, 2020, 110, NULL),
       Enriched(<<"J", "J", "J">>, 2020, 120, NULL) >>

DictionaryLines == <<"variable,description", "REF_AREA,area", "REF_AREA,area">>

\* The contents a CSV file of the given lines can have on disk: the whole
\* download, or the head of it left by a write that was cut short (the header
\* line survives).
Prefixes(lines) == {SubSeq(lines, 1, k) : k \in 1..Len(lines)}

\* requests.get: it raises, or returns a response.
Responses(lines) ==
    { [raised |-> TRUE, status_code |-> 0, content |-> <<>>],
      [raised |-> FALSE, status_code |-> 200, content |-> lines],
      [raised |-> FALSE, status_code |-> 404, content |-> <<"Not Found">>] }

\* One download cell: the cache test, the GET, raise_for_status, write_bytes.
FetchCellUnconditional(file, resp) ==
    IF resp.raised \/ resp.status_code >= 400
    THEN [file |-> file, exc |-> "NetworkFailure", got |-> 1]
    ELSE [file |-> <<resp.content>>, exc |-> "none", got |-> 1]

FetchCellWriteFirst(file, resp) ==
    IF Exists(file) THEN [file |-> file, exc |-> "none", got |-> 0]
    ELSE IF resp.raised THEN [file |-> file, exc |-> "NetworkFailure", got |-> 1]
    ELSE IF resp.status_code >= 400
    THEN [file |-> <<resp.content>>, exc |-> "NetworkFailure", got |-> 1]
    ELSE [file |-> <<resp.content>>, exc |-> "none", got |-> 1]

FetchCell(file, resp) ==
    IF Exists(file) THEN [file |-> file, exc |-> "none", got |-> 0]
    ELSE IF resp.raised \/ resp.status_code >= 400
    THEN [file |-> file, exc |-> "NetworkFailure", got |-> 1]
    ELSE [file |-> <<resp.content>>, exc |-> "none", got |-> 1]

----------------------------------------------------------------------------
(* The database: tables and queries *)

TableNames ==
    {"indicator_raw", "dictionary", "indicator_clean", "region_mapping",
     "indicator_with_region"}

HasTable(d, t) == t \in DOMAIN d

\* CREATE OR REPLACE TABLE t AS rows.
CreateOrAppend(d, t, rows) ==
    [x \in DOMAIN d \cup {t} |->
        IF x = t THEN (IF t \in DOMAIN d THEN d[t] \o rows ELSE rows) ELSE d[x]]

CreateOrReplace(d, t, rows) ==
    [x \in DOMAIN d \cup {t} |-> IF x = t THEN rows ELSE d[x]]

\* read_csv_auto(file, header=True): the lines after the header.
ReadCsv(file) == Tail(file[1])

\* SELECT DISTINCT *: each row once.
RECURSIVE Distinct(_)
Distinct(s) ==
    IF s = <<>> THEN <<>>
    ELSE LET init == SubSeq(s, 1, Len(s) - 1)
             last == s[Len(s)]
         IN  IF last \in Range(init) THEN Distinct(init)
             ELSE Distinct(init) \o <<last>>

\* The cleaning query (indicator_clean).  The WHERE clause runs first; the two
\* CASTs are strict, so one surviving row that does not parse fails the
\* statement and the table is not replaced.
CleanWhere(r) == r.OBS_VALUE # NULL /\ r.TIME_PERIOD # NULL

CleanRow(r) ==
    [country_code |-> r.REF_AREA, country_name |-> r.REF_AREA_LABEL,
     year |-> CastInteger(r.TIME_PERIOD).v, value |-> CastDouble(r.OBS_VALUE).v,
     indicator_name |-> r.INDICATOR_LABEL]

CleanQuery(raw) ==
    LET kept == SelectSeq(raw, CleanWhere)
    IN  IF \E i \in 1..Len(kept) :
              ~CastInteger(kept[i].TIME_PERIOD).ok \/ ~CastDouble(kept[i].OBS_VALUE).ok
        THEN [exc |-> "ConversionError", rows |-> <<>>]
        ELSE [exc |-> "none", rows |-> Map(kept, CleanRow)]

RegionMappingValues ==
    <<
       [country_code |-> <<"C", "H", "N">>, region |-> <<"East Asia & Pacific">>],
       [country_code |-> <<"J", "P", "N">>, region |-> <<"East Asia & Pacific">>],
       [country_code |-> <<"K", "O", "R">>, region |-> <<"East Asia & Pacific">>],
       [country_code |-> <<"A", "U", "S">>, region |-> <<"East Asia & Pacific">>],
       [country_code |-> <<"I", "D", "N">>, region |-> <<"East Asia & Pacific">>],
       [country_code |-> <<"T", "H", "A">>, region |-> <<"East Asia & Pacific">>],
       [country_code |-> <<"V", "N", "M">>, region |-> <<"East Asia & Pacific">>],
       [country_code |-> <<"M", "Y", "S">>, region |-> <<"East Asia & Pacific">>],
       [country_code |-> <<"P", "H", "L">>, region |-> <<"East Asia & Pacific">>],
       [country_code |-> <<"N", "Z", "L">>, region |-> <<"East Asia & Pacific">>],
       [country_code |-> <<"D", "E", "U">>, region |-> <<"Europe & Central Asia">>],
       [country_code |-> <<"F", "R", "A">>, region |-> <<"Europe & Central Asia">>],
       [country_code |-> <<"G", "B", "R">>, region |-> <<"Europe & Central Asia">>],
       [country_code |-> <<"I", "T", "A">>, region |-> <<"Europe & Central Asia">>],
       [country_code |-> <<"E", "S", "P">>, region |-> <<"Europe & Central Asia">>],
       [country_code |-> <<"P", "O", "L">>, region |-> <<"Europe & Central Asia">>],
       [country_code |-> <<"N", "L", "D">>, region |-> <<"Europe & Central Asia">>],
       [country_code |-> <<"T", "U", "R">>, region |-> <<"Europe & Central Asia">>],
       [country_code |-> <<"R", "U", "S">>, region |-> <<"Europe & Central Asia">>],
       [country_code |-> <<"U", "K", "R">>, region |-> <<"Europe & Central Asia">>],
       [country_code |-> <<"B", "R", "A">>, region |-> <<"Latin America & Caribbean">>],
       [country_code |-> <<"M", "E", "X">>, region |-> <<"Latin America & Caribbean">>],
       [country_code |-> <<"A", "R", "G">>, region |-> <<"Latin America & Caribbean">>],
       [country_code |-> <<"C", "O", "L">>, region |-> <<"Latin America & Caribbean">>],
       [country_code |-> <<"C", "H", "L">>, region |-> <<"Latin America & Caribbean">>],
       [country_code |-> <<"P", "E", "R">>, region |-> <<"Latin America & Caribbean">>],
       [country_code |-> <<"V", "E", "N">>, region |-> <<"Latin America & Caribbean">>],
       [country_code |-> <<"E", "G", "Y">>, region |-> <<"Middle East & North Africa">>],
       [country_code |-> <<"S", "A", "U">>, region |-> <<"Middle East & North Africa">>],
       [country_code |-> <<"I", "R", "N">>, region |-> <<"Middle East & North Africa">>],
       [country_code |-> <<"I", "R", "Q">>, region |-> <<"Middle East & North Africa">>],
       [country_code |-> <<"M", "A", "R">>, region |-> <<"Middle East & North Africa">>],
       [country_code |-> <<"D", "Z", "A">>, region |-> <<"Middle East & North Africa">>],
       [country_code |-> <<"U", "S", "A">>, region |-> <<"North America">>],
       [country_code |-> <<"C", "A", "N">>, region |-> <<"North America">>],
       [country_code |-> <<"I", "N", "D">>, region |-> <<"South Asia">>],
       [country_code |-> <<"P", "A", "K">>, region |-> <<"South Asia">>],
       [country_code |-> <<"B", "G", "D">>, region |-> <<"South Asia">>],
       [country_code |-> <<"L", "K", "A">>, region |-> <<"South Asia">>],
       [country_code |-> <<"N", "P", "L">>, region |-> <<"South Asia">>],
       [country_code |-> <<"N", "G", "A">>, region |-> <<"Sub-Saharan Africa">>],
       [country_code |-> <<"Z", "A", "F">>, region |-> <<"Sub-Saharan Africa">>],
       [country_code |-> <<"K", "E", "N">>, region |-> <<"Sub-Saharan Africa">>],
       [country_code |-> <<"E", "T", "H">>, region |-> <<"Sub-Saharan Africa">>],
       [country_code |-> <<"G", "H", "A">>, region |-> <<"Sub-Saharan Africa">>],
       [country_code |-> <<"T", "Z", "A">>, region |-> <<"Sub-Saharan Africa">>]
    >>

\* One row of indicator_with_region: i.* and COALESCE(r.region, 'Other').
JoinRow(i, region) ==
    [country_code |-> i.country_code, country_name |-> i.country_name,
     year |-> i.year, value |-> i.value, indicator_name |-> i.indicator_name,
     region |-> Coalesce(region, <<"Other">>)]

\* FROM indicator_clean i LEFT JOIN region_mapping r
\*   ON UPPER(i.country_code) = r.country_code
InnerJoinQuery(clean, mapping) ==
    Flatten(Map(clean, LAMBDA i :
        LET m == SelectSeq(mapping,
                     LAMBDA r : SqlEq(Upper(i.country_code), r.country_code))
        IN  Map(m, LAMBDA r : JoinRow(i, r.region))))

JoinQuery(clean, mapping) ==
    Flatten(Map(clean, LAMBDA i :
        LET m == SelectSeq(mapping,
                     LAMBDA r : SqlEq(Upper(i.country_code), r.country_code))
        IN  IF m = <<>> THEN <<JoinRow(i, NULL)>>
            ELSE Map(m, LAMBDA r : JoinRow(i, r.region))))

\* WHERE region != 'Unknown' AND region IS NOT NULL AND region != ''
RegionFilterIntended(region) ==
    region # <<"Unknown">> /\ region # NULL /\ region # <<"">> /\ region # <<"Other">>

RegionFilter(region) ==
    region # <<"Unknown">> /\ region # NULL /\ region # <<"">>

MinCountries == 3

\* HAVING COUNT(DISTINCT country_code) >= 3
HavingAtLeastTwo(n) == n >= MinCountries - 1

Having(n) == n >= MinCountries

\* COUNT(DISTINCT x): NULLs are not counted.
CountDistinct(cells) == Cardinality(Range(cells) \ {NULL})

\* AVG(x) as the exact quotient sum / n.
Avg(vals) == [sum |-> SumSeq(vals), n |-> Len(vals)]

\* ROUND(AVG(x), 1), in tenths (half away from zero; the values are not negative).
RoundAvg(vals) == (2 * SumSeq(vals) + Len(vals)) \div (2 * Len(vals))

\* The region strings of the model in ascending string order.
RegionOrder ==
    << "", "East Asia & Pacific", "Europe & Central Asia",
       "Latin America & Caribbean", "Middle East & North Africa",
       "North America", "Other", "South Asia", "Sub-Saharan Africa", "Unknown" >>

RegionRank(region) == CHOOSE i \in 1..Len(RegionOrder) : RegionOrder[i] = region[1]

\* ORDER BY region, year
RegionYearLeq(a, b) ==
    \/ RegionRank(a.region) < RegionRank(b.region)
    \/ a.region = b.region /\ a.year <= b.year

RECURSIVE SortRegionYear(_)
SortRegionYear(S) ==
    IF S = {} THEN <<>>
    ELSE LET m == CHOOSE x \in S : \A y \in S : RegionYearLeq(x, y)
         IN  <<m>> \o SortRegionYear(S \ {m})

\* The regional_df query (RegionYearAggregate).
RegionalQuery(t) ==
    LET rows == SelectSeq(t, LAMBDA r : RegionFilter(r.region))
        keys == {<<rows[i].region, rows[i].year>> : i \in 1..Len(rows)}
        Group(k) == SelectSeq(rows, LAMBDA r : r.region = k[1] /\ r.year = k[2])
        Agg(k) ==
            LET g == Group(k)
            IN  [region |-> k[1], year |-> k[2],
                 avg_participation_rate |-> Avg(Map(g, LAMBDA r : r.value)),
                 num_countries |-> CountDistinct(Map(g, LAMBDA r : r.country_code))]
    IN  SortRegionYear({a \in {Agg(k) : k \in keys} : Having(a.num_countries)})

Min(S) == CHOOSE x \in S : \A y \in S : x <= y
Max(S) == CHOOSE x \in S : \A y \in S : x >= y

\* ORDER BY avg_rate DESC; rows of equal avg_rate come in the engine's order,
\* which is a function of the table.
AvgRateGeq(a, b) == a.avg_rate >= b.avg_rate

RECURSIVE SortAvgRateDesc(_)
SortAvgRateDesc(S) ==
    IF S = {} THEN <<>>
    ELSE LET m == CHOOSE x \in S : \A y \in S : AvgRateGeq(x, y)
         IN  <<m>> \o SortAvgRateDesc(S \ {m})

\* The summary_df query (RegionSummary).
SummaryQuery(t) ==
    LET rows == SelectSeq(t, LAMBDA r : RegionFilter(r.region))
        keys == {rows[i].region : i \in 1..Len(rows)}
        Agg(k) ==
            LET g == SelectSeq(rows, LAMBDA r : r.region = k)
                years == Range(Map(g, LAMBDA r : r.year))
            IN  [region |-> k, first_year |-> Min(years), last_year |-> Max(years),
                 avg_rate |-> RoundAvg(Map(g, LAMBDA r : r.value)),
                 data_points |-> Len(g)]
    IN  SortAvgRateDesc({Agg(k) : k \in keys})

\* alt.Chart(regional_df).mark_line(...).encode(...).properties(...), as saved.
RenderChart(df) ==
    [mark |-> "line", x |-> "year:Q", y |-> "avg_participation_rate:Q",
     color |-> "region:N", width |-> 700, height |-> 400,
     title |-> "Labor Force Participation Rate by Region Over Time",
     data |-> df]

----------------------------------------------------------------------------
(* The script: its cells in order *)

CellsSummaryFirst ==
    << "fetch_indicator", "fetch_dictionary", "connect", "load_indicator",
       "load_dictionary", "clean", "region_mapping", "join", "regional",
       "summary", "chart", "close", "end" >>

Cells ==
    << "fetch_indicator", "fetch_dictionary", "connect", "load_indicator",
       "load_dictionary", "clean", "region_mapping", "join", "regional",
       "chart", "summary", "close", "end" >>

CellIndex(c) == CHOOSE i \in 1..Len(Cells) : Cells[i] = c

NextCell(c) == Cells[CellIndex(c) + 1]

At(c) == status = "running" /\ pc = c

\* The cell returned: control passes to the next one.
Advance ==
    /\ pc' = NextCell(pc)
    /\ status' = IF NextCell(pc) = "end" THEN "done" ELSE "running"
    /\ exc' = exc

\* The cell raised: nothing catches it, the run ends at this cell.
Raise(e) ==
    /\ pc' = pc
    /\ status' = "aborted"
    /\ exc' = e

NoGets == [indicator |-> 0, dictionary |-> 0]

EmptyDb == [t \in {} |-> <<>>]

LocalState == [indicatorFile |-> indicatorFile, dictionaryFile |-> dictionaryFile,
               chartFile |-> chartFile, db |-> db]

Outcome == [db |-> db, chartFile |-> chartFile, regional_df |-> regional_df,
            summary_df |-> summary_df, status |-> status]

NoOutcome == [db |-> EmptyDb, chartFile |-> <<>>, regional_df |-> <<>>,
              summary_df |-> <<>>, status |-> "none"]

RemoteContents ==
    { <<Header>> \o Pick(ServedRows, I) :
        I \in {J \in SUBSET (1..Len(ServedRows)) : Cardinality(J) <= MaxRemoteRows} }

Init ==
    /\ pc = Cells[1]
    /\ status = "running"
    /\ exc = "none"
    /\ run = 1
    /\ remoteIndicator \in RemoteContents
    /\ remoteDictionary = DictionaryLines
    /\ indicatorFile \in {<<>>} \cup {<<p>> : p \in Prefixes(remoteIndicator)}
    /\ dictionaryFile \in {<<>>} \cup {<<p>> : p \in Prefixes(remoteDictionary)}
    /\ chartFile = <<>>
    /\ db = EmptyDb
    /\ conn = "none"
    /\ regional_df = <<>>
    /\ summary_df = <<>>
    /\ gets = NoGets
    /\ start = [indicatorFile |-> indicatorFile, dictionaryFile |-> dictionaryFile,
                chartFile |-> <<>>, db |-> EmptyDb]
    /\ prev = NoOutcome

\* The script is executed again, in a fresh interpreter, on the files and the
\* database the earlier run left.
StartRun ==
    /\ status \in {"done", "aborted"}
    /\ run < MaxRuns
    /\ run' = run + 1
    /\ pc' = Cells[1]
    /\ status' = "running"
    /\ exc' = "none"
    /\ conn' = "none"
    /\ regional_df' = <<>>
    /\ summary_df' = <<>>
    /\ gets' = NoGets
    /\ start' = LocalState
    /\ prev' = Outcome
    /\ UNCHANGED <<indicatorFile, dictionaryFile, chartFile, db, remoteIndicator,
                   remoteDictionary>>

FetchIndicator ==
    /\ At("fetch_indicator")
    /\ \E resp \in Responses(remoteIndicator) :
          LET r == FetchCell(indicatorFile, resp)
          IN  /\ indicatorFile' = r.file
              /\ gets' = [gets EXCEPT !.indicator = @ + r.got]
              /\ IF r.exc = "none" THEN Advance ELSE Raise(r.exc)
    /\ UNCHANGED <<run, dictionaryFile, chartFile, db, conn, regional_df,
                   summary_df, remoteIndicator, remoteDictionary, start, prev>>

FetchDictionary ==
    /\ At("fetch_dictionary")
    /\ \E resp \in Responses(remoteDictionary) :
          LET r == FetchCell(dictionaryFile, resp)
          IN  /\ dictionaryFile' = r.file
              /\ gets' = [gets EXCEPT !.dictionary = @ + r.got]
              /\ IF r.exc = "none" THEN Advance ELSE Raise(r.exc)
    /\ UNCHANGED <<run, indicatorFile, chartFile, db, conn, regional_df,
                   summary_df, remoteIndicator, remoteDictionary, start, prev>>

Connect ==
    /\ At("connect")
    /\ conn' = "open"
    /\ Advance
    /\ UNCHANGED <<run, indicatorFile, dictionaryFile, chartFile, db, regional_df,
                   summary_df, gets, remoteIndicator, remoteDictionary, start, prev>>

LoadIndicator ==
    /\ At("load_indicator")
    /\ db' = CreateOrReplace(db, "indicator_raw", ReadCsv(indicatorFile))
    /\ Advance
    /\ UNCHANGED <<run, indicatorFile, dictionaryFile, chartFile, conn, regional_df,
                   summary_df, gets, remoteIndicator, remoteDictionary, start, prev>>

LoadDictionary ==
    /\ At("load_dictionary")
    /\ db' = CreateOrReplace(db, "dictionary", Distinct(ReadCsv(dictionaryFile)))
    /\ Advance
    /\ UNCHANGED <<run, indicatorFile, dictionaryFile, chartFile, conn, regional_df,
                   summary_df, gets, remoteIndicator, remoteDictionary, start, prev>>

Clean ==
    /\ At("clean")
    /\ LET q == CleanQuery(db["indicator_raw"])
       IN  IF q.exc = "none"
           THEN db' = CreateOrReplace(db, "indicator_clean", q.rows) /\ Advance
           ELSE db' = db /\ Raise(q.exc)
    /\ UNCHANGED <<run, indicatorFile, dictionaryFile, chartFile, conn, regional_df,
                   summary_df, gets, remoteIndicator, remoteDictionary, start, prev>>

CreateRegionMapping ==
    /\ At("region_mapping")
    /\ db' = CreateOrReplace(db, "region_mapping", RegionMappingValues)
    /\ Advance
    /\ UNCHANGED <<run, indicatorFile, dictionaryFile, chartFile, conn, regional_df,
                   summary_df, gets, remoteIndicator, remoteDictionary, start, prev>>

Join ==
    /\ At("join")
    /\ db' = CreateOrReplace(db, "indicator_with_region",
                 JoinQuery(db["indicator_clean"], db["region_mapping"]))
    /\ Advance
    /\ UNCHANGED <<run, indicatorFile, dictionaryFile, chartFile, conn, regional_df,
                   summary_df, gets, remoteIndicator, remoteDictionary, start, prev>>

Regional ==
    /\ At("regional")
    /\ regional_df' = <<RegionalQuery(db["indicator_with_region"])>>
    /\ Advance
    /\ UNCHANGED <<run, indicatorFile, dictionaryFile, chartFile, db, conn,
                   summary_df, gets, remoteIndicator, remoteDictionary, start, prev>>

SaveChart ==
    /\ At("chart")
    /\ chartFile' = <<RenderChart(regional_df[1])>>
    /\ Advance
    /\ UNCHANGED <<run, indicatorFile, dictionaryFile, db, conn, regional_df,
                   summary_df, gets, remoteIndicator, remoteDictionary, start, prev>>

Summary ==
    /\ At("summary")
    /\ summary_df' = <<SummaryQuery(db["indicator_with_region"])>>
    /\ Advance
    /\ UNCHANGED <<run, indicatorFile, dictionaryFile, chartFile, db, conn,
                   regional_df, gets, remoteIndicator, remoteDictionary, start, prev>>

Close ==
    /\ At("close")
    /\ conn' = "closed"
    /\ Advance
    /\ UNCHANGED <<run, indicatorFile, dictionaryFile, chartFile, db, regional_df,
                   summary_df, gets, remoteIndicator, remoteDictionary, start, prev>>

Next ==
    \/ StartRun
    \/ FetchIndicator
    \/ FetchDictionary
    \/ Connect
    \/ LoadIndicator
    \/ LoadDictionary
    \/ Clean
    \/ CreateRegionMapping
    \/ Join
    \/ Regional
    \/ SaveChart
    \/ Summary
    \/ Close

Spec == Init /\ [][Next]_vars

----------------------------------------------------------------------------
(* The transformation on its own: the cells from the cleaning query on, over *)
(* every bounded content of indicator_raw.                                  *)

RawContents ==
    { <<Header>> \o Pick(RawRows, I) :
        I \in {J \in SUBSET (1..Len(RawRows)) : Cardinality(J) <= MaxRawRows} }

InitTransform ==
    /\ pc = "clean"
    /\ status = "running"
    /\ exc = "none"
    /\ run = 1
    /\ remoteIndicator \in RawContents
    /\ remoteDictionary = DictionaryLines
    /\ indicatorFile = <<remoteIndicator>>
    /\ dictionaryFile = <<remoteDictionary>>
    /\ chartFile = <<>>
    /\ db = CreateOrReplace(
                CreateOrReplace(EmptyDb, "indicator_raw", ReadCsv(indicatorFile)),
                "dictionary", Distinct(ReadCsv(dictionaryFile)))
    /\ conn = "open"
    /\ regional_df = <<>>
    /\ summary_df = <<>>
    /\ gets = [indicator |-> 1, dictionary |-> 1]
    /\ start = [indicatorFile |-> <<>>, dictionaryFile |-> <<>>,
                chartFile |-> <<>>, db |-> EmptyDb]
    /\ prev = NoOutcome

NextTransform ==
    \/ Clean
    \/ CreateRegionMapping
    \/ Join
    \/ Regional
    \/ SaveChart
    \/ Summary
    \/ Close

SpecTransform == InitTransform /\ [][NextTransform]_vars

----------------------------------------------------------------------------
(* The aggregation on its own: the cells from the regional query on, over   *)
(* every bounded content of indicator_with_region.                          *)

EnrichedContents ==
    { Pick(EnrichedRows, I) :
        I \in {J \in SUBSET (1..Len(EnrichedRows)) : Cardinality(J) <= MaxEnrichedRows} }

InitAggregate ==
    /\ pc = "regional"
    /\ status = "running"
    /\ exc = "none"
    /\ run = 1
    /\ remoteIndicator = <<Header>>
    /\ remoteDictionary = DictionaryLines
    /\ indicatorFile = <<remoteIndicator>>
    /\ dictionaryFile = <<remoteDictionary>>
    /\ chartFile = <<>>
    /\ \E t \in EnrichedContents :
          db = CreateOrReplace(
                   CreateOrReplace(EmptyDb, "region_mapping", RegionMappingValues),
                   "indicator_with_region", t)
    /\ conn = "open"
    /\ regional_df = <<>>
    /\ summary_df = <<>>
    /\ gets = [indicator |-> 1, dictionary |-> 1]
    /\ start = [indicatorFile |-> <<>>, dictionaryFile |-> <<>>,
                chartFile |-> <<>>, db |-> EmptyDb]
    /\ prev = NoOutcome

NextAggregate ==
    \/ Regional
    \/ SaveChart
    \/ Summary
    \/ Close

SpecAggregate == InitAggregate /\ [][NextAggregate]_vars

----------------------------------------------------------------------------
(* Properties *)

Terminated == status \in {"done", "aborted"}

\* Cell c has been executed in the current run (to its end, or to its exception).
Passed(c) ==
    \/ CellIndex(pc) > CellIndex(c)
    \/ pc = c /\ status = "aborted"

Count(s, P(_)) == Cardinality({i \in 1..Len(s) : P(s[i])})

NetworkAbort == status = "aborted" /\ exc = "NetworkFailure"

\* C1: whenever a run has terminated after opening the connection, the
\* connection is closed.
C1_ConnectionReleased == (Terminated /\ conn # "none") => conn = "closed"

\* C2: a cast failure is per row and not fatal: once the cleaning cell has run,
\* no conversion error has ended the run, and indicator_clean holds exactly the
\* rows of indicator_raw with non-null OBS_VALUE and TIME_PERIOD that parse.
C2_CastFailurePerRow ==
    Passed("clean") =>
        LET good == SelectSeq(db["indicator_raw"], LAMBDA r :
                        /\ CleanWhere(r)
                        /\ CastInteger(r.TIME_PERIOD).ok
                        /\ CastDouble(r.OBS_VALUE).ok)
        IN  /\ exc # "ConversionError"
            /\ HasTable(db, "indicator_clean")
            /\ db["indicator_clean"] = Map(good, CleanRow)

\* C3: the cache test is existence only: a resource whose file existed when the
\* run began is never requested, its file stays as it was (partial or not) and
\* is what the Loader ingests; a resource whose file did not exist is requested
\* exactly once when its download cell runs; no resource is requested twice.
C3_CacheExistenceOnly ==
    /\ gets.indicator <= 1
    /\ gets.dictionary <= 1
    /\ Passed("fetch_indicator") =>
          IF Exists(start.indicatorFile)
          THEN gets.indicator = 0 /\ indicatorFile = start.indicatorFile
          ELSE gets.indicator = 1
    /\ Passed("fetch_dictionary") =>
          IF Exists(start.dictionaryFile)
          THEN gets.dictionary = 0 /\ dictionaryFile = start.dictionaryFile
          ELSE gets.dictionary = 1
    /\ (Passed("load_indicator") /\ Exists(start.indicatorFile)) =>
          db["indicator_raw"] = Tail(start.indicatorFile[1])
    /\ (Passed("load_dictionary") /\ Exists(start.dictionaryFile)) =>
          Range(db["dictionary"]) = Range(Tail(start.dictionaryFile[1]))

C3_Witness ==
    /\ Passed("load_dictionary")
    /\ Exists(start.indicatorFile)
    /\ start.indicatorFile[1] # remoteIndicator
    /\ ~Exists(start.dictionaryFile)
    /\ gets = [indicator |-> 0, dictionary |-> 1]

\* C4 as stated: after a failed GET the run has aborted at once, the file of
\* that resource does not exist, the connection was never opened, no table and
\* no chart was written, and the local state is the one the run began with.
C4_NoOutputAfterNetworkFailure ==
    NetworkAbort =>
        /\ pc \in {"fetch_indicator", "fetch_dictionary"}
        /\ pc = "fetch_indicator" => ~Exists(indicatorFile) /\ gets.indicator = 1
        /\ pc = "fetch_dictionary" => ~Exists(dictionaryFile) /\ gets.dictionary = 1
        /\ conn = "none"
        /\ db = start.db
        /\ chartFile = start.chartFile
        /\ LocalState = start

\* C4 amended: as above, except that the indicator file stays on disk when it
\* was downloaded in this run before the dictionary's GET failed.
C4_NetworkFailureFatal ==
    NetworkAbort =>
        /\ pc \in {"fetch_indicator", "fetch_dictionary"}
        /\ pc = "fetch_indicator" => ~Exists(indicatorFile) /\ gets.indicator = 1
        /\ pc = "fetch_dictionary" => ~Exists(dictionaryFile) /\ gets.dictionary = 1
        /\ conn = "none"
        /\ db = start.db
        /\ chartFile = start.chartFile
        /\ regional_df = <<>> /\ summary_df = <<>>
        /\ dictionaryFile = start.dictionaryFile
        /\ \/ indicatorFile = start.indicatorFile
           \/ /\ pc = "fetch_dictionary"
              /\ ~Exists(start.indicatorFile)
              /\ indicatorFile = <<remoteIndicator>>

C4_Witness ==
    /\ NetworkAbort
    /\ pc = "fetch_dictionary"
    /\ ~Exists(start.indicatorFile)
    /\ Exists(indicatorFile)

\* The region the join must give a country code.
MappedRegion(code) ==
    IF \E m \in Range(RegionMappingValues) : m.country_code = Upper(code)
    THEN (CHOOSE m \in Range(RegionMappingValues) : m.country_code = Upper(code)).region
    ELSE <<"Other">>

CleanColumns(w) ==
    [country_code |-> w.country_code, country_name |-> w.country_name,
     year |-> w.year, value |-> w.value, indicator_name |-> w.indicator_name]

\* C5: once the join has run, every row of indicator_clean occurs in
\* indicator_with_region as often as in indicator_clean, no other row occurs,
\* and each row's region is the mapped region of its uppercased country code,
\* or 'Other' when the code is no key of region_mapping.
C5_JoinComplete ==
    Passed("join") =>
        LET c == db["indicator_clean"]
            w == db["indicator_with_region"]
        IN  /\ \A x \in Range(c) :
                  Count(w, LAMBDA y : CleanColumns(y) = x) = Count(c, LAMBDA y : y = x)
            /\ \A y \in Range(w) :
                  CleanColumns(y) \in Range(c) /\ y.region = MappedRegion(y.country_code)

C5_Witness ==
    /\ Passed("join")
    /\ LET c == db["indicator_clean"]
           w == db["indicator_with_region"]
       IN  /\ \E i, j \in 1..Len(c) : i # j /\ c[i] = c[j]
           /\ \E y \in Range(w) : y.region = <<"Other">>
           /\ \E y \in Range(w) :
                 y.region = <<"North America">> /\ y.country_code = <<"u", "s", "a">>

\* The rows of indicator_raw of North America in 2020 that carry a value.
NorthAmerica2020 ==
    SelectSeq(db["indicator_raw"], LAMBDA r :
        /\ Upper(r.REF_AREA) \in {<<"U", "S", "A">>, <<"C", "A", "N">>}
        /\ r.TIME_PERIOD = Y2020
        /\ r.OBS_VALUE # NULL)

\* C6: when indicator_raw holds a USA row and a CAN row of 2020 and three or
\* more further rows of North America in 2020, regional_df holds exactly one
\* row for ('North America', 2020), with the mean of all those values and the
\* number of distinct country codes among them.
C6_NorthAmericaScenario ==
    ( /\ regional_df # <<>>
      /\ \E r \in Range(NorthAmerica2020) : r.REF_AREA = <<"U", "S", "A">>
      /\ \E r \in Range(NorthAmerica2020) : r.REF_AREA = <<"C", "A", "N">>
      /\ Len(NorthAmerica2020) >= 5 )
    =>
        LET hits == SelectSeq(regional_df[1], LAMBDA a :
                        a.region = <<"North America">> /\ a.year = 2020)
        IN  /\ Len(hits) = 1
            /\ hits[1].avg_participation_rate =
                  [sum |-> SumSeq(Map(NorthAmerica2020,
                                      LAMBDA r : CastDouble(r.OBS_VALUE).v)),
                   n |-> Len(NorthAmerica2020)]
            /\ hits[1].num_countries =
                  Cardinality({r.REF_AREA : r \in Range(NorthAmerica2020)})

\* C7: regional_df holds exactly one row for each (region, year) group of
\* indicator_with_region with at least 3 distinct country codes and a region
\* that is not NULL, not '' and not 'Unknown', no row for any other group,
\* every row has num_countries >= 3, and the rows ascend by (region, year).
C7_AggregateThreshold ==
    regional_df # <<>> =>
        LET t == db["indicator_with_region"]
            out == regional_df[1]
            Groups == {<<r.region, r.year>> : r \in Range(t)}
            Codes(k) == {r.country_code : r \in {x \in Range(t) :
                             x.region = k[1] /\ x.year = k[2]}} \ {NULL}
            Qualifies(k) ==
                /\ k[1] \notin {NULL, <<"">>, <<"Unknown">>}
                /\ Cardinality(Codes(k)) >= 3
        IN  /\ \A k \in Groups :
                  Count(out, LAMBDA a : a.region = k[1] /\ a.year = k[2])
                      = IF Qualifies(k) THEN 1 ELSE 0
            /\ \A a \in Range(out) : <<a.region, a.year>> \in Groups
            /\ \A a \in Range(out) :
                  a.num_countries >= 3
                  /\ a.num_countries = Cardinality(Codes(<<a.region, a.year>>))
            /\ \A i, j \in 1..Len(out) :
                  i < j =>
                      \/ RegionRank(out[i].region) < RegionRank(out[j].region)
                      \/ out[i].region = out[j].region /\ out[i].year < out[j].year

C7_Witness ==
    /\ regional_df # <<>>
    /\ Len(regional_df[1]) = 2
    /\ regional_df[1][1].year = 2020
    /\ regional_df[1][2].year = 2021
    /\ \E r \in Range(db["indicator_with_region"]) : r.region = <<"Other">>

\* C8: a run that began with both files cached ends with every table, both
\* aggregates and the chart file equal to what the previous run left.
C8_RerunIdempotent ==
    ( /\ run >= 2
      /\ Terminated
      /\ Exists(start.indicatorFile)
      /\ Exists(start.dictionaryFile) )
    =>
        /\ db = prev.db
        /\ chartFile = prev.chartFile
        /\ regional_df = prev.regional_df
        /\ summary_df = prev.summary_df

C8_Witness ==
    /\ run = 2
    /\ status = "done"
    /\ prev.status = "done"
    /\ Len(db["indicator_raw"]) = 3
    /\ Len(db["dictionary"]) = 1
    /\ Len(regional_df[1]) = 1
    /\ chartFile[1].data = regional_df[1]

\* C9 as stated: when the Renderer starts, both aggregates have been computed.
C9_AggregatesBeforeRenderer ==
    At("chart") => regional_df # <<>> /\ summary_df # <<>>

\* C9 amended: the cells run once each in script order; when the Renderer
\* starts, RegionYearAggregate has been computed and RegionSummary has not;
\* RegionSummary is computed after the chart file of this run was written and
\* before the connection is closed.
C9_LinearOrder ==
    /\ At("chart") => regional_df # <<>> /\ summary_df = <<>>
    /\ At("summary") =>
          /\ summary_df = <<>>
          /\ regional_df # <<>>
          /\ chartFile = <<RenderChart(regional_df[1])>>
          /\ conn = "open"
    /\ regional_df # <<>> => Passed("regional") /\ HasTable(db, "indicator_with_region")
    /\ summary_df # <<>> => Passed("summary") /\ chartFile = <<RenderChart(regional_df[1])>>
    /\ conn = "closed" => summary_df # <<>>
    /\ (status = "running" /\ CellIndex(pc) <= CellIndex("regional")) =>
          regional_df = <<>> /\ summary_df = <<>>

C9_Witness ==
    /\ At("summary")
    /\ Len(regional_df[1]) = 1
    /\ chartFile[1].data = regional_df[1]

\* The rows of indicator_clean whose uppercased code is no key of region_mapping.
Unresolved ==
    SelectSeq(db["indicator_clean"], LAMBDA c :
        \A m \in Range(RegionMappingValues) : m.country_code # Upper(c.country_code))

\* C10: once both aggregates are computed, every unresolved row of
\* indicator_clean is in indicator_with_region with region 'Other', the
\* summary has one 'Other' row counting all unresolved rows, and regional_df
\* has an ('Other', year) row averaging all unresolved rows of that year
\* whenever they carry at least 3 distinct country codes.
C10_OtherBucketKept ==
    (regional_df # <<>> /\ summary_df # <<>>) =>
        \A c \in Range(Unresolved) :
            LET sameYear == SelectSeq(Unresolved, LAMBDA u : u.year = c.year)
                codes == {u.country_code : u \in Range(sameYear)} \ {NULL}
            IN  /\ \E w \in Range(db["indicator_with_region"]) :
                      CleanColumns(w) = c /\ w.region = <<"Other">>
                /\ Count(summary_df[1], LAMBDA s :
                       s.region = <<"Other">> /\ s.data_points = Len(Unresolved)) = 1
                /\ Cardinality(codes) >= 3 =>
                      \E a \in Range(regional_df[1]) :
                          /\ a.region = <<"Other">>
                          /\ a.year = c.year
                          /\ a.num_countries = Cardinality(codes)
                          /\ a.avg_participation_rate =
                                [sum |-> SumSeq(Map(sameYear, LAMBDA u : u.value)),
                                 n |-> Len(sameYear)]

C10_Witness ==
    /\ regional_df # <<>>
    /\ summary_df # <<>>
    /\ \E a \in Range(regional_df[1]) : a.region = <<"Other">> /\ a.avg_participation_rate.n = 4
    /\ \E c \in Range(Unresolved) : c.country_code = NULL

====
